---------------------------- MODULE Spec2Model ----------------------------
(***************************************************************************)
(* Model of iterative_solver.py: Jacobi and SOR relaxation for 2D Laplace  *)
(* inpainting, and the brute-force search for the SOR relaxation factor.   *)
(*                                                                         *)
(* numpy arrays are objects on a heap (a reference may alias another), so  *)
(* that copy() and in-place assignment are what they are in the source.    *)
(* Array elements are binary floating-point numbers <<m, e>> = m * 2^e     *)
(* with a MantBits-bit significand, rounded to nearest, ties to even,      *)
(* after every arithmetic operation, as IEEE 754 does with 53 bits.  The   *)
(* exponent is unbounded: overflow, subnormals, infinities and NaN are     *)
(* outside the model.                                                      *)
(***************************************************************************)
EXTENDS Integers, Sequences, FiniteSets

\* ------------------------------------------------------------------ bounds
\* significand width of the modelled floating-point format
MantBits == 5
\* largest iteration cap (max_iter, nIter) passed to a solver
MaxIter == 2

\* ------------------------------------------------- floating-point numbers
RECURSIVE BitLen(_)
BitLen(n) == IF n = 0 THEN 0 ELSE 1 + BitLen(n \div 2)

Abs(n) == IF n < 0 THEN -n ELSE n

RECURSIVE Canon(_, _)
\* the canonical pair of m * 2^e: odd significand, zero as <<0, 0>>
Canon(m, e) ==
    IF m = 0 THEN <<0, 0>>
    ELSE IF m % 2 = 0 THEN Canon(m \div 2, e + 1)
    ELSE <<m, e>>

\* m * 2^e rounded to MantBits significant bits, to nearest, ties to even
Rnd(m, e) ==
    LET a == Abs(m)
        k == BitLen(a) - MantBits
    IN  IF k <= 0 THEN Canon(m, e)
        ELSE LET q    == a \div (2 ^ k)
                 r    == a % (2 ^ k)
                 half == 2 ^ (k - 1)
                 q2   == IF r > half \/ (r = half /\ q % 2 = 1) THEN q + 1 ELSE q
             IN  Canon(IF m < 0 THEN -q2 ELSE q2, e + k)

\* an integer literal converted to a float
FromInt(n) == Rnd(n, 0)
\* the literal n / 2^k converted to a float
Dyadic(n, k) == Rnd(n, -k)

FZero == <<0, 0>>
FOne  == <<1, 0>>

FNeg(a) == <<-a[1], a[2]>>

\* a + b, rounded.  Operands more than 2*MantBits+2 binary places apart
\* cannot move the larger one: the smaller is below a quarter of its ulp.
FAdd(a, b) ==
    IF a[1] = 0 THEN b
    ELSE IF b[1] = 0 THEN a
    ELSE IF a[2] - b[2] > 2 * MantBits + 2 THEN a
    ELSE IF b[2] - a[2] > 2 * MantBits + 2 THEN b
    ELSE LET lo == IF a[2] < b[2] THEN a[2] ELSE b[2]
         IN  Rnd(a[1] * 2 ^ (a[2] - lo) + b[1] * 2 ^ (b[2] - lo), lo)

FSub(a, b) == FAdd(a, FNeg(b))

FMul(a, b) == Rnd(a[1] * b[1], a[2] + b[2])

\* a / 4.0: exact in binary floating point
FDiv4(a) == Canon(a[1], a[2] - 2)

\* a < b: rounding to nearest keeps the sign of the exact difference
FLess(a, b) == FSub(a, b)[1] < 0

\* floor of the square root of a natural number
ISqrt(n) == CHOOSE r \in 0..(2 ^ (MantBits + 3)) : r * r <= n /\ n < (r + 1) * (r + 1)

\* sqrt(a), correctly rounded, for a >= 0
FSqrt(a) ==
    IF a[1] = 0 THEN FZero
    ELSE LET want == 2 * MantBits + 2 - BitLen(a[1])
             s    == IF (a[2] - want) % 2 = 0 THEN want ELSE want + 1
             n    == a[1] * 2 ^ s
             r    == ISqrt(n)
             st   == IF r * r = n THEN 0 ELSE 1
         IN  Rnd(2 * r + st, ((a[2] - s) \div 2) - 1)


\* ------------------------------------------------------------------ arrays
\* A 2-D numpy array is [shape |-> <<rows, cols>>, at |-> elements], indexed
\* from 0.
Cells(shape) == (0..(shape[1] - 1)) \X (0..(shape[2] - 1))

\* the cells of an array in row-major (C) order, as numpy flattens them
RowMajor(shape) ==
    [n \in 1..(shape[1] * shape[2]) |-> <<(n - 1) \div shape[2], (n - 1) % shape[2]>>]

\* a shift that fills with zeros what np.roll wraps around
RollZeroFill(u, shift, axis) ==
    [shape |-> u.shape,
     at |-> [c \in Cells(u.shape) |->
        LET i == IF axis = 0 THEN c[1] - shift ELSE c[1]
            j == IF axis = 0 THEN c[2] ELSE c[2] - shift
        IN  IF <<i, j>> \in Cells(u.shape) THEN u.at[<<i, j>>] ELSE FZero]]

\* np.roll(u, shift, axis): out[i, j] = u[(i - shift) mod rows, j] on axis 0
Roll(u, shift, axis) ==
    [shape |-> u.shape,
     at |-> [c \in Cells(u.shape) |->
        IF axis = 0
        THEN u.at[<<(c[1] - shift) % u.shape[1], c[2]>>]
        ELSE u.at[<<c[1], (c[2] - shift) % u.shape[2]>>]]]

\* elementwise sum of two arrays of one shape
ArrAdd(a, b) ==
    [shape |-> a.shape, at |-> [c \in Cells(a.shape) |-> FAdd(a.at[c], b.at[c])]]

\* (1 - omega) * old + omega * avg, each operation rounded
Relax(old, avg, omega) ==
    FAdd(FMul(FSub(FOne, omega), old), FMul(omega, avg))

\* u[i, j] as Python indexes: a negative index counts from the end
Item(u, i, j) ==
    u.at[<<IF i < 0 THEN i + u.shape[1] ELSE i, IF j < 0 THEN j + u.shape[2] ELSE j>>]

\* a quotient by 2.0 where the source divides by 4.0
FDiv2(a) == Canon(a[1], a[2] - 1)

\* the average of four summed neighbours: s / 4.0
Quarter(s) == FDiv4(s)

\* avg_neighbors of step_jacobi_2D
AvgNeighbors(u) ==
    LET s == ArrAdd(ArrAdd(ArrAdd(Roll(u, 1, 0), Roll(u, -1, 0)), Roll(u, 1, 1)),
                    Roll(u, -1, 1))
    IN  [shape |-> u.shape, at |-> [c \in Cells(u.shape) |-> Quarter(s.at[c])]]

\* a[mask] is an IndexError unless the boolean mask has the array's shape
MaskFits(a, mask) == mask.shape = a.shape

\* an assignment that ignores the mask
AssignEverywhere(u, mask, val) == val

\* u_new[mask] = val[mask]: only the cells where mask is true are assigned
AssignMasked(u, mask, val) ==
    [shape |-> u.shape,
     at |-> [c \in Cells(u.shape) |-> IF mask.at[c] THEN val.at[c] ELSE u.at[c]]]

\* step_jacobi_2D(u, mask, omega): the value of the new array u_new
step_jacobi_2D(u, mask, omega) ==
    LET avg == AvgNeighbors(u)
        val == [shape |-> u.shape,
                at |-> [c \in Cells(u.shape) |-> Relax(u.at[c], avg.at[c], omega)]]
    IN  AssignMasked(u, mask, val)

\* one cell of step_sor_2D's loop body, reading the array as it is now
SorCellValue(u, i, j, omega) ==
    LET avg == Quarter(FAdd(FAdd(FAdd(Item(u, i + 1, j), Item(u, i - 1, j)),
                                 Item(u, i, j + 1)), Item(u, i, j - 1)))
    IN  Relax(Item(u, i, j), avg, omega)

RECURSIVE SumSq(_, _, _, _)
\* acc + d[lo]^2 + ... + d[hi]^2, added one after the other in that order and
\* rounded after every operation.  The range is halved, and the left half's
\* sum bound through a singleton set, only to keep the evaluation shallow:
\* the order of the additions is the sequential one.  (numpy leaves the
\* order to its dot product; a sum of squares is zero in any order exactly
\* when every term is.)
SumSq(d, lo, hi, acc) ==
    IF lo > hi THEN acc
    ELSE IF lo = hi THEN FAdd(acc, FMul(d[lo], d[lo]))
    ELSE LET mid == (lo + hi) \div 2
         IN  CHOOSE v \in { SumSq(d, mid + 1, hi, left) :
                            left \in { SumSq(d, lo, mid, acc) } } : TRUE

\* is cell c selected by the mask
Selected(mask, c) == mask.at[c]

\* a[mask] - b[mask]: the differences at the masked cells, in row-major order
MaskedDiff(a, b, mask) ==
    LET sel == SelectSeq(RowMajor(a.shape), LAMBDA c : Selected(mask, c))
    IN  [n \in 1..Len(sel) |-> FSub(a.at[sel[n]], b.at[sel[n]])]

\* np.linalg.norm(a[mask] - b[mask])
NormDiff(a, b, mask) ==
    LET d == MaskedDiff(a, b, mask)
    IN  FSqrt(SumSq(d, 1, Len(d), FZero))

\* the test "diff < tol" that ends a solver early
Converged(diff, tol) == FLess(diff, tol)

\* ------------------------------------------------------------------ inputs
\* the shape of the images the solvers are run on
GridShape == <<4, 4>>

Flat(shape, v) == [shape |-> shape, at |-> [c \in Cells(shape) |-> v]]

\* zeros everywhere but v at cell pos
Hot(shape, pos, v) ==
    [shape |-> shape, at |-> [c \in Cells(shape) |-> IF c = pos THEN v ELSE FZero]]

\* the cells numbered in row-major order
Ramp(shape) ==
    [shape |-> shape, at |-> [c \in Cells(shape) |-> FromInt(c[1] * shape[2] + c[2])]]

\* the boolean array of a shape that is true on the cells of S
MaskOf(shape, S) == [shape |-> shape, at |-> [c \in Cells(shape) |-> c \in S]]

Interior(shape) == (1..(shape[1] - 2)) \X (1..(shape[2] - 2))

Border(shape) == Cells(shape) \ Interior(shape)

IsFlat(a) == \A c, d \in Cells(a.shape) : a.at[c] = a.at[d]

Images ==
    { Flat(GridShape, FZero), Flat(GridShape, FromInt(7)), Flat(GridShape, FromInt(11)),
      Hot(GridShape, <<0, 0>>, FromInt(8)), Hot(GridShape, <<0, 1>>, FromInt(12)),
      Hot(GridShape, <<2, 2>>, FromInt(5)), Ramp(GridShape) }

\* masks of the image's shape
FittingMasks ==
    { MaskOf(GridShape, S) :
        S \in { {}, Cells(GridShape), Interior(GridShape),
                Cells(GridShape) \ {<<0, 0>>}, {<<1, 1>>}, {<<1, 2>>, <<2, 1>>},
                {<<0, 1>>}, {<<0, 0>>, <<2, 2>>} } }

\* masks of another shape than the image's: fewer rows, fewer columns, more rows
MisfitMasks ==
    { MaskOf(sh, Cells(sh)) : sh \in { <<2, 4>>, <<3, 4>>, <<4, 2>>, <<5, 4>> } }

Tols == { FZero, Dyadic(1, 2), FromInt(4) }

Omegas == { Dyadic(1, 1), FOne, Dyadic(5, 2), Dyadic(3, 1) }

Caps == (-1)..MaxIter

OmegaLists ==
    { <<>>, <<FOne>>, <<Dyadic(1, 1)>>, <<FOne, FOne>>, <<Dyadic(1, 1), FOne>>,
      <<Dyadic(3, 1), Dyadic(1, 1), FOne>> }

\* calls of inpaint_jacobi and inpaint_sor
SolverCalls ==
    [ fn : {"inpaint_jacobi", "inpaint_sor"}, image : Images,
      mask : FittingMasks \cup MisfitMasks, tol : Tols, max_iter : Caps,
      omega : Omegas, omega_values : {<<>>} ]

\* calls of find_optimal_omega_sor (nIter is max_iter, abstol is tol), each
\* passing its omega_values: the default list np.arange(1.0, 2.0, 0.05) is
\* not among them
SearchCalls ==
    [ fn : {"find_optimal_omega_sor"},
      image : { Flat(GridShape, FromInt(7)), Hot(GridShape, <<0, 1>>, FromInt(12)),
                Ramp(GridShape) },
      mask : { MaskOf(GridShape, {}), MaskOf(GridShape, Cells(GridShape)),
               MaskOf(GridShape, {<<1, 1>>}), MaskOf(<<4, 2>>, Cells(<<4, 2>>)) },
      tol : Tols, max_iter : Caps, omega : {FOne}, omega_values : OmegaLists ]

\* a 10x10 grid of zeros with one corner at 100, masked everywhere but there
CornerShape == <<10, 10>>

Corners(shape) == { <<i, j>> : i \in {0, shape[1] - 1}, j \in {0, shape[2] - 1} }

CornerCalls ==
    { [ fn |-> "inpaint_jacobi", image |-> Hot(CornerShape, p, FromInt(100)),
        mask |-> MaskOf(CornerShape, Cells(CornerShape) \ {p}),
        tol |-> Dyadic(1, 2), max_iter |-> 1, omega |-> FOne, omega_values |-> <<>> ]
      : p \in Corners(CornerShape) }

\* a (3,5) mask against a (5,5) grid
ShortMaskCalls ==
    { [ fn |-> f, image |-> Hot(<<5, 5>>, <<0, 1>>, FromInt(12)), mask |-> MaskOf(<<3, 5>>, Cells(<<3, 5>>)),
        tol |-> Dyadic(1, 2), max_iter |-> 1, omega |-> FOne, omega_values |-> <<>> ]
      : f \in {"inpaint_jacobi", "inpaint_sor"} }

Calls == SolverCalls \cup SearchCalls \cup CornerCalls \cup ShortMaskCalls

\* ------------------------------------------------------------------- state
VARIABLES
    arg,            \* the arguments of the call, as passed
    heap,           \* the array objects: reference -> array
    u, u_new, u_old,\* the solver's local references ("none": unbound)
    it,             \* the solver's loop index
    ci, cj,         \* step_sor_2D's loop indices i, j
    omega,          \* the omega the running solver was called with
    pc,             \* where control is
    ret,            \* what the solver returned: [u |-> reference, it |-> count]
    err,            \* the exception raised, "none" if none
    diffs,          \* the values of diff the running solver has computed
    k,              \* find_optimal_omega_sor: position in omega_values
    best_omega,     \* <<>> for None, <<w>> for w
    fewest_iters,
    trials          \* the iters each inpaint_sor call of the search returned

vars == <<arg, heap, u, u_new, u_old, it, ci, cj, omega, pc, ret, err, diffs,
          k, best_omega, fewest_iters, trials>>

Refs == {"a0", "a1", "a2"}

\* the caller's image array
ImageRef == "a0"

NoArray == [shape |-> <<0, 0>>, at |-> <<>>]

NoRet == [u |-> "none", it |-> 0]

\* a reference no live variable holds
NewRef(live) == CHOOSE r \in Refs : r \notin live

\* binding the working array to the argument itself
WorkingAlias(r, live) == r

\* u = image.copy(): the working array is a new object
WorkingCopy(r, live) == NewRef(live)

\* arrays no variable refers to any more are gone
Collect(h, live) == [r \in Refs |-> IF r \in live THEN h[r] ELSE NoArray]

Init ==
    /\ arg \in Calls
    /\ heap = [r \in Refs |-> IF r = ImageRef THEN arg.image ELSE NoArray]
    /\ u = "none" /\ u_new = "none" /\ u_old = "none"
    /\ it = 0 /\ ci = 0 /\ cj = 0
    /\ omega = arg.omega
    /\ pc = CASE arg.fn = "inpaint_jacobi" -> "j_enter"
              [] arg.fn = "inpaint_sor" -> "s_enter"
              [] OTHER -> "f_enter"
    /\ ret = NoRet
    /\ err = "none"
    /\ diffs = <<>>
    /\ k = 0 /\ best_omega = <<>> /\ fewest_iters = 0 /\ trials = <<>>

\* ----------------------------------------------------------- inpaint_jacobi
search == <<k, best_omega, fewest_iters, trials>>

\* returning "it" for "it + 1"
CountAtIndex(n) == n

\* the count returned on convergence at loop index n
CountAt(n) == n + 1

\* u = image.copy()
JacobiEnter ==
    /\ pc = "j_enter"
    /\ LET n == WorkingCopy(ImageRef, {ImageRef})
       IN  /\ heap' = [heap EXCEPT ![n] = heap[ImageRef]]
           /\ u' = n
    /\ it' = 0
    /\ diffs' = <<>>
    /\ pc' = "j_loop"
    /\ UNCHANGED <<arg, u_new, u_old, ci, cj, omega, ret, err, search>>

\* for it in range(max_iter): u_new = step_jacobi_2D(u, mask, omega)
JacobiStep ==
    /\ pc = "j_loop"
    /\ it < arg.max_iter
    /\ MaskFits(heap[u], arg.mask)
    /\ LET n == NewRef({ImageRef, u})
       IN  /\ heap' = [heap EXCEPT ![n] = step_jacobi_2D(heap[u], arg.mask, omega)]
           /\ u_new' = n
    /\ pc' = "j_check"
    /\ UNCHANGED <<arg, u, u_old, it, ci, cj, omega, ret, err, diffs, search>>

\* step_jacobi_2D: u[mask] with a mask of another shape raises IndexError
JacobiStepRaises ==
    /\ pc = "j_loop"
    /\ it < arg.max_iter
    /\ ~MaskFits(heap[u], arg.mask)
    /\ err' = "IndexError"
    /\ pc' = "raised"
    /\ UNCHANGED <<arg, heap, u, u_new, u_old, it, ci, cj, omega, ret, diffs, search>>

\* diff = norm(u_new[mask] - u[mask]); u = u_new; if diff < tol: return u, it + 1
JacobiCheck ==
    /\ pc = "j_check"
    /\ LET diff == NormDiff(heap[u_new], heap[u], arg.mask)
       IN  /\ diffs' = Append(diffs, diff)
           /\ IF Converged(diff, arg.tol)
              THEN /\ ret' = [u |-> u_new, it |-> CountAt(it)]
                   /\ pc' = "returned"
                   /\ it' = it
              ELSE /\ it' = it + 1
                   /\ pc' = "j_loop"
                   /\ ret' = ret
    /\ u' = u_new
    /\ u_new' = "none"
    /\ heap' = Collect(heap, {ImageRef, u_new})
    /\ UNCHANGED <<arg, u_old, ci, cj, omega, err, search>>

\* the loop ran out: return u, max_iter
JacobiExhausted ==
    /\ pc = "j_loop"
    /\ it >= arg.max_iter
    /\ ret' = [u |-> u, it |-> arg.max_iter]
    /\ pc' = "returned"
    /\ UNCHANGED <<arg, heap, u, u_new, u_old, it, ci, cj, omega, err, diffs, search>>

\* -------------------------------------------------------------- inpaint_sor
\* where control goes when inpaint_sor returns
AfterSor == IF arg.fn = "find_optimal_omega_sor" THEN "f_cmp" ELSE "returned"

\* loops that start on the border row and column
FirstCellOnBorder(shape) == <<0, 0>>

\* the first (i, j) of step_sor_2D's loops, range(1, nrows - 1) over
\* range(1, ncols - 1); <<nrows - 1, 1>>, past the end, when there is none
FirstCell(shape) ==
    IF 1 < shape[2] - 1 THEN <<1, 1>> ELSE <<shape[1] - 1, 1>>

\* the (i, j) after (i, j): j runs over range(1, ncols - 1) inside i
NextCell(shape, i, j) ==
    IF j + 1 < shape[2] - 1 THEN <<i, j + 1>> ELSE <<i + 1, 1>>

\* u = image.copy()
SorEnter ==
    /\ pc = "s_enter"
    /\ LET n == WorkingCopy(ImageRef, {ImageRef})
       IN  /\ heap' = [heap EXCEPT ![n] = heap[ImageRef]]
           /\ u' = n
    /\ it' = 0
    /\ diffs' = <<>>
    /\ ret' = NoRet
    /\ pc' = "s_loop"
    /\ UNCHANGED <<arg, u_new, u_old, ci, cj, omega, err, search>>

\* for it in range(max_iter): u_old = u.copy(); step_sor_2D(u, ...) is entered
SorBeginSweep ==
    /\ pc = "s_loop"
    /\ it < arg.max_iter
    /\ LET n == NewRef({ImageRef, u})
       IN  /\ heap' = [heap EXCEPT ![n] = heap[u]]
           /\ u_old' = n
    /\ ci' = FirstCell(heap[u].shape)[1]
    /\ cj' = FirstCell(heap[u].shape)[2]
    /\ pc' = "s_cell"
    /\ UNCHANGED <<arg, u, u_new, it, omega, ret, err, diffs, search>>

\* step_sor_2D's loop body at (i, j): if mask[i, j]: u[i, j] = ...
SorCell ==
    /\ pc = "s_cell"
    /\ ci < heap[u].shape[1] - 1
    /\ <<ci, cj>> \in Cells(arg.mask.shape)
    /\ heap' = IF arg.mask.at[<<ci, cj>>]
               THEN [heap EXCEPT ![u].at[<<ci, cj>>] = SorCellValue(heap[u], ci, cj, omega)]
               ELSE heap
    /\ ci' = NextCell(heap[u].shape, ci, cj)[1]
    /\ cj' = NextCell(heap[u].shape, ci, cj)[2]
    /\ UNCHANGED <<arg, u, u_new, u_old, it, omega, pc, ret, err, diffs, search>>

\* mask[i, j] outside the mask raises IndexError
SorCellRaises ==
    /\ pc = "s_cell"
    /\ ci < heap[u].shape[1] - 1
    /\ <<ci, cj>> \notin Cells(arg.mask.shape)
    /\ err' = "IndexError"
    /\ pc' = "raised"
    /\ UNCHANGED <<arg, heap, u, u_new, u_old, it, ci, cj, omega, ret, diffs, search>>

\* step_sor_2D returned u; diff = norm(u[mask] - u_old[mask]);
\* if diff < tol: return u, it + 1
SorCheck ==
    /\ pc = "s_cell"
    /\ ci >= heap[u].shape[1] - 1
    /\ MaskFits(heap[u], arg.mask)
    /\ LET diff == NormDiff(heap[u], heap[u_old], arg.mask)
       IN  /\ diffs' = Append(diffs, diff)
           /\ IF Converged(diff, arg.tol)
              THEN /\ ret' = [u |-> u, it |-> CountAt(it)]
                   /\ pc' = AfterSor
                   /\ it' = it
              ELSE /\ it' = it + 1
                   /\ pc' = "s_loop"
                   /\ ret' = ret
    /\ u_old' = "none"
    /\ heap' = Collect(heap, {ImageRef, u})
    /\ UNCHANGED <<arg, u, u_new, ci, cj, omega, err, search>>

\* u[mask] with a mask of another shape raises IndexError
SorCheckRaises ==
    /\ pc = "s_cell"
    /\ ci >= heap[u].shape[1] - 1
    /\ ~MaskFits(heap[u], arg.mask)
    /\ err' = "IndexError"
    /\ pc' = "raised"
    /\ UNCHANGED <<arg, heap, u, u_new, u_old, it, ci, cj, omega, ret, diffs, search>>

\* the loop ran out: return u, max_iter
SorExhausted ==
    /\ pc = "s_loop"
    /\ it >= arg.max_iter
    /\ ret' = [u |-> u, it |-> arg.max_iter]
    /\ pc' = AfterSor
    /\ UNCHANGED <<arg, heap, u, u_new, u_old, it, ci, cj, omega, err, diffs, search>>

\* --------------------------------------------------- find_optimal_omega_sor
\* a baseline one above the cap
FewestAboveCap(nIter) == nIter + 1

\* fewest_iters = nIter
InitialFewest(nIter) == nIter

\* the comparison with "<=" for "<"
ImprovesOrTies(iters, fewest) == iters <= fewest

\* if iters < fewest_iters
Improves(iters, fewest) == iters < fewest

\* best_omega = None; fewest_iters = nIter
SearchEnter ==
    /\ pc = "f_enter"
    /\ best_omega' = <<>>
    /\ fewest_iters' = InitialFewest(arg.max_iter)
    /\ k' = 1
    /\ trials' = <<>>
    /\ pc' = "f_loop"
    /\ UNCHANGED <<arg, heap, u, u_new, u_old, it, ci, cj, omega, ret, err, diffs>>

\* for omega in omega_values: inpaint_sor(image, mask, abstol, nIter, omega) is called
SearchNext ==
    /\ pc = "f_loop"
    /\ k <= Len(arg.omega_values)
    /\ omega' = arg.omega_values[k]
    /\ pc' = "s_enter"
    /\ UNCHANGED <<arg, heap, u, u_new, u_old, it, ci, cj, ret, err, diffs, search>>

\* _, iters = inpaint_sor(...); if iters < fewest_iters: best_omega, fewest_iters = ...
SearchCompare ==
    /\ pc = "f_cmp"
    /\ IF Improves(ret.it, fewest_iters)
       THEN /\ best_omega' = <<omega>>
            /\ fewest_iters' = ret.it
       ELSE UNCHANGED <<best_omega, fewest_iters>>
    /\ trials' = Append(trials, ret.it)
    /\ k' = k + 1
    /\ u' = "none"
    /\ heap' = Collect(heap, {ImageRef})
    /\ pc' = "f_loop"
    /\ UNCHANGED <<arg, u_new, u_old, it, ci, cj, omega, ret, err, diffs>>

\* return best_omega, fewest_iters
SearchReturn ==
    /\ pc = "f_loop"
    /\ k > Len(arg.omega_values)
    /\ pc' = "returned"
    /\ UNCHANGED <<arg, heap, u, u_new, u_old, it, ci, cj, omega, ret, err, diffs, search>>

Next ==
    \/ JacobiEnter \/ JacobiStep \/ JacobiStepRaises \/ JacobiCheck \/ JacobiExhausted
    \/ SorEnter \/ SorBeginSweep \/ SorCell \/ SorCellRaises \/ SorCheck
    \/ SorCheckRaises \/ SorExhausted
    \/ SearchEnter \/ SearchNext \/ SearchCompare \/ SearchReturn

Spec == Init /\ [][Next]_vars

\* ================================================================= claims
IsSolverCall == arg.fn \in {"inpaint_jacobi", "inpaint_sor"}

SolverReturned == IsSolverCall /\ pc = "returned"

SearchReturned == arg.fn = "find_optimal_omega_sor" /\ pc = "returned"

\* the working arrays the running solver holds
Working == {u, u_new} \ {"none"}

\* is cell c a cell the mask selects
MaskTrueAt(c) == c \in Cells(arg.mask.shape) /\ arg.mask.at[c]

MinOf(S) == CHOOSE n \in S : \A m \in S : n <= m

\* C1: whatever the arguments, and wherever inpaint_jacobi, inpaint_sor or
\* the search built on it stands, every cell of the caller's image array
\* holds the value it held before the call.
C1_ImageUnchanged == heap[ImageRef] = arg.image

\* inpaint_sor has returned a grid its in-place sweeps changed
C1_Witness ==
    /\ pc = "returned" /\ arg.fn = "inpaint_sor"
    /\ heap[ret.u] # arg.image
    /\ ret.u # ImageRef

\* C2: every working grid of a solver, after every sweep and when returned,
\* has the input's shape, and every cell the mask does not select holds the
\* input image's value.
C2_UnmaskedKept ==
    \A r \in Working :
        /\ heap[r].shape = arg.image.shape
        /\ \A c \in Cells(arg.image.shape) :
              ~MaskTrueAt(c) => heap[r].at[c] = arg.image.at[c]

\* inpaint_jacobi has returned a grid that differs from the input, under a
\* mask with unselected cells
C2_Witness ==
    /\ pc = "returned" /\ arg.fn = "inpaint_jacobi"
    /\ heap[ret.u] # arg.image
    /\ \E c \in Cells(arg.image.shape) : ~MaskTrueAt(c)

\* the sweeps (1-based) whose diff was strictly below tol
ConvergedSweeps == { n \in 1..Len(diffs) : FLess(diffs[n], arg.tol) }

\* C3: with max_iter >= 1, a solver that returns has run exactly as many
\* sweeps as the count it returns; the count is the 1-based number of the
\* first sweep whose diff is strictly below tol, or max_iter if there is
\* none, and so lies in 1..max_iter.
C3_CountIsFirstConverged ==
    (pc \in {"returned", "f_cmp"} /\ arg.max_iter >= 1 /\ ret.u # "none")
    => /\ ret.it \in 1..arg.max_iter
       /\ Len(diffs) = ret.it
       /\ IF ConvergedSweeps # {}
          THEN ret.it = MinOf(ConvergedSweeps)
          ELSE ret.it = arg.max_iter

\* a solver returned at its second sweep, the first having not converged
C3_Witness ==
    /\ SolverReturned /\ arg.max_iter >= 2
    /\ ret.it = 2
    /\ ConvergedSweeps = {2}

\* C4 (as claimed): for max_iter <= 0 a solver returns the input image and
\* the count 0.
C4_NonPositiveCapCountsZero ==
    (SolverReturned /\ arg.max_iter <= 0 /\ MaskFits(arg.image, arg.mask))
    => (ret.it = 0 /\ heap[ret.u] = arg.image)

\* C5 (as claimed): over a singleton list <<w>> the search returns w and the
\* count of its one inpaint_sor run (stated here for nIter >= 1 and a mask
\* of the image's shape).
C5_SingletonReturnsCandidate ==
    (SearchReturned /\ Len(arg.omega_values) = 1 /\ arg.max_iter >= 1
        /\ MaskFits(arg.image, arg.mask))
    => (best_omega = <<arg.omega_values[1]>> /\ fewest_iters = trials[1])

\* C5 (amended): over a singleton list <<w>> the search runs inpaint_sor once
\* and returns that run's count n; the omega returned is w when n < nIter
\* and None when n = nIter.
C5_SingletonAmended ==
    (SearchReturned /\ Len(arg.omega_values) = 1)
    => /\ Len(trials) = 1
       /\ fewest_iters = trials[1]
       /\ best_omega = IF trials[1] < arg.max_iter THEN <<arg.omega_values[1]>> ELSE <<>>

\* the search over a singleton list returned its candidate
C5_Witness ==
    /\ SearchReturned /\ Len(arg.omega_values) = 1
    /\ best_omega = <<arg.omega_values[1]>>
    /\ trials[1] < arg.max_iter

\* the candidates (positions) whose run returned fewer than nIter sweeps
BelowCap == { n \in 1..Len(trials) : trials[n] < arg.max_iter }

\* the first position holding the smallest count
FirstBest ==
    MinOf({ n \in 1..Len(trials) : \A m \in 1..Len(trials) : trials[n] <= trials[m] })

\* C6: the search runs the candidates in the order given, the n-th run with
\* the n-th candidate; it returns the first candidate holding the smallest
\* count, with that count, or None with nIter when no count is below nIter;
\* the omega returned is None exactly when the count returned is nIter.
C6_FirstSmallestOrNone ==
    /\ (arg.fn = "find_optimal_omega_sor" /\ pc \in {"s_enter", "s_loop", "s_cell", "f_cmp"})
       => (Len(trials) = k - 1 /\ omega = arg.omega_values[k])
    /\ SearchReturned
       => /\ Len(trials) = Len(arg.omega_values)
          /\ IF BelowCap = {}
             THEN best_omega = <<>> /\ fewest_iters = arg.max_iter
             ELSE /\ best_omega = <<arg.omega_values[FirstBest]>>
                  /\ fewest_iters = trials[FirstBest]
          /\ (best_omega = <<>>) <=> (fewest_iters = arg.max_iter)

\* the search returned a candidate that is not the first of the list, and a
\* later candidate tied with it
C6_Witness ==
    /\ SearchReturned
    /\ best_omega # <<>>
    /\ FirstBest > 1
    /\ \E n \in (FirstBest + 1)..Len(trials) :
          /\ trials[n] = trials[FirstBest]
          /\ arg.omega_values[n] # arg.omega_values[FirstBest]

\* a solver call on a constant grid with a fitting mask
FlatCall == IsSolverCall /\ IsFlat(arg.image) /\ MaskFits(arg.image, arg.mask)

\* the value every cell of a constant image holds
FlatValue == arg.image.at[<<0, 0>>]

\* C7 (as claimed): on a constant grid, with any mask and omega in (0, 2),
\* every step leaves every cell unchanged, and with tol > 0 and
\* max_iter >= 1 the solver returns the input grid and the count 1.
C7_FlatIsFixed ==
    FlatCall
    => /\ \A r \in Working : heap[r] = arg.image
       /\ (pc = "returned" /\ FLess(FZero, arg.tol) /\ arg.max_iter >= 1) => ret.it = 1

\* (1 - omega) * c + omega * c evaluates to c in floating point
RelaxIsExact == Relax(FlatValue, FlatValue, arg.omega) = FlatValue

\* C7 (amended): on a constant grid of value c, with any mask and an omega
\* in (0, 2) for which (1 - omega) * c + omega * c evaluates to exactly c in
\* floating point (omega = 1 always does), every step leaves every cell
\* unchanged, and with tol > 0 and max_iter >= 1 the solver returns the
\* input grid and the count 1.
C7_FlatIsFixedWhenExact ==
    (FlatCall /\ RelaxIsExact)
    => /\ \A r \in Working : heap[r] = arg.image
       /\ (pc = "returned" /\ FLess(FZero, arg.tol) /\ arg.max_iter >= 1)
          => (ret.it = 1 /\ heap[ret.u] = arg.image)

\* a solver returned at sweep 1 on a nonzero constant grid, with omega # 1
\* and selected interior cells
C7_Witness ==
    /\ FlatCall /\ RelaxIsExact
    /\ pc = "returned" /\ ret.it = 1 /\ arg.max_iter > 1
    /\ FlatValue # FZero /\ arg.omega # FOne
    /\ arg.mask.at[<<1, 1>>]

\* a solver call whose mask has another shape than the image
MisfitCall == IsSolverCall /\ ~MaskFits(arg.image, arg.mask)

\* C8 (as claimed): a call whose mask has another shape than the grid is
\* rejected before any cell of the working grid has been updated: with
\* max_iter >= 1 the working grid never differs from the input and the
\* solver never returns.  (Any exception is taken for the rejection; the
\* one numpy raises is IndexError.)
C8_RejectedBeforeAnyUpdate ==
    (MisfitCall /\ arg.max_iter >= 1)
    => /\ \A r \in Working : heap[r] = arg.image
       /\ pc # "returned"

\* the relaxed value of cell c of u, the four neighbours taken from u with
\* wrap-around and summed in the order up, down, left, right
WrapRelaxed(a, c, w) ==
    LET rows == a.shape[1]
        cols == a.shape[2]
        up    == a.at[<<(c[1] - 1) % rows, c[2]>>]
        down  == a.at[<<(c[1] + 1) % rows, c[2]>>]
        left  == a.at[<<c[1], (c[2] - 1) % cols>>]
        right == a.at[<<c[1], (c[2] + 1) % cols>>]
        mean  == FDiv4(FAdd(FAdd(FAdd(up, down), left), right))
    IN  FAdd(FMul(FSub(FOne, w), a.at[c]), FMul(w, mean))

\* the four wrap-around neighbours of a cell
WrapNeighbours(shape, c) ==
    { <<(c[1] - 1) % shape[1], c[2]>>, <<(c[1] + 1) % shape[1], c[2]>>,
      <<c[1], (c[2] - 1) % shape[2]>>, <<c[1], (c[2] + 1) % shape[2]>> }

\* the corner that holds 100 in a call of CornerCalls
HotCorner == CHOOSE p \in Corners(CornerShape) : arg.image.at[p] # FZero

\* C9: a step of step_jacobi_2D leaves its input array as it was and binds
\* u_new to another array in which every cell the mask selects holds
\* (1 - omega) * u[i, j] + omega * (mean of u at the four wrap-around
\* neighbours), computed from the input u, and every other cell holds u's
\* value; on the 10x10 grid of zeros with one corner at 100, masked
\* everywhere but there, with omega = 1, that is 25 at the corner's four
\* wrap-around neighbours and 0 at every other selected cell.
C9_JacobiSynchronousWrap ==
    [][ (pc = "j_loop" /\ pc' = "j_check")
        => /\ u' = u /\ u_new' # u /\ heap'[u] = heap[u]
           /\ heap'[u_new'].shape = heap[u].shape
           /\ \A c \in Cells(heap[u].shape) :
                 heap'[u_new'].at[c] =
                    IF arg.mask.at[c] THEN WrapRelaxed(heap[u], c, omega)
                    ELSE heap[u].at[c]
           /\ arg \in CornerCalls
              => \A c \in Cells(CornerShape) \ {HotCorner} :
                    heap'[u_new'].at[c] =
                       IF c \in WrapNeighbours(CornerShape, HotCorner)
                       THEN FromInt(25) ELSE FZero ]_vars

\* the step on the 10x10 corner grid has been made, and a neighbour of the
\* corner across the edge holds 25
C9_Witness ==
    /\ pc = "j_check" /\ arg \in CornerCalls
    /\ \E c \in WrapNeighbours(CornerShape, HotCorner) :
          /\ (c[1] - HotCorner[1] \notin {-1, 0, 1} \/ c[2] - HotCorner[2] \notin {-1, 0, 1})
          /\ heap[u_new].at[c] = FromInt(25)

\* the value the sweep gives interior cell c: upper and left neighbours from
\* the swept array new, lower and right neighbours from the array old as it
\* was before the sweep, summed in the order down, up, right, left
SweptValue(old, new, c, w) ==
    LET mean == FDiv4(FAdd(FAdd(FAdd(old.at[<<c[1] + 1, c[2]>>], new.at[<<c[1] - 1, c[2]>>]),
                                old.at[<<c[1], c[2] + 1>>]), new.at[<<c[1], c[2] - 1>>]))
    IN  FAdd(FMul(FSub(FOne, w), old.at[c]), FMul(w, mean))

\* step_sor_2D has gone through all its cells
SweepDone == pc = "s_cell" /\ ci >= heap[u].shape[1] - 1

\* C10: under inpaint_sor, border cells of the working grid always hold the
\* input image's value, whatever the mask; and when a sweep ends, every
\* interior cell the mask selects holds the relaxed value computed from the
\* swept values of its upper and left neighbours and the pre-sweep values
\* of itself and its lower and right neighbours, every other cell its
\* pre-sweep value.
C10_BorderKeptRowMajor ==
    (arg.fn # "inpaint_jacobi" /\ u # "none")
    => /\ \A c \in Border(arg.image.shape) : heap[u].at[c] = arg.image.at[c]
       /\ (SweepDone /\ u_old # "none")
          => \A c \in Cells(arg.image.shape) :
                heap[u].at[c] =
                   IF c \in Interior(arg.image.shape) /\ MaskTrueAt(c)
                   THEN SweptValue(heap[u_old], heap[u], c, omega)
                   ELSE heap[u_old].at[c]

\* a sweep under a mask that selects border cells has ended with cell (1, 1)
\* changed and cell (2, 2) holding another value than the pre-sweep
\* neighbours alone would give
C10_Witness ==
    /\ arg.fn = "inpaint_sor" /\ SweepDone /\ arg.image.shape = GridShape
    /\ arg.mask.shape = GridShape /\ arg.mask.at[<<0, 0>>] /\ arg.mask.at[<<2, 2>>]
    /\ heap[u].at[<<1, 1>>] # heap[u_old].at[<<1, 1>>]
    /\ heap[u].at[<<2, 2>>] # SweptValue(heap[u_old], heap[u_old], <<2, 2>>, omega)

=============================================================================
